---- MODULE Spec2Model ----
(***************************************************************************)
(* A model of chatbot.py: the Streamlit script main(), the ChatBot         *)
(* streaming generator, and conversation import / export.                  *)
(*                                                                         *)
(* Python str values are TLA+ strings.  JSON values are tagged records,    *)
(* JSON texts are sequences of tokens, so that json.dumps / json.loads     *)
(* are a real encoder and a real parser.                                   *)
(***************************************************************************)
EXTENDS Integers, Sequences, FiniteSets, TLC

\* ------------------------------------------------------------------ bounds
\* The user submits at most MaxTurns prompts in a behaviour.
MaxTurns == 2
\* A text that is rendered has at most MaxTokens lines.
MaxTokens == 5

\* ------------------------------------------------------------ JSON values
JNull == [t |-> "null"]
JStr(s) == [t |-> "str", s |-> s]
JBool(b) == [t |-> "bool", b |-> b]
\* A number, kept as its literal ("0.7", "40").
JNum(lit) == [t |-> "num", lit |-> lit]
JArr(items) == [t |-> "arr", items |-> items]
\* A dict: its (key, value) pairs in insertion order, keys distinct.
JObj(fields) == [t |-> "obj", fields |-> fields]

HasKey(obj, k) == \E i \in 1..Len(obj.fields) : obj.fields[i][1] = k

Get(obj, k) ==
  LET i == CHOOSE j \in 1..Len(obj.fields) : obj.fields[j][1] = k
  IN obj.fields[i][2]

\* d[k] = v on a dict: a present key keeps its place and takes the new value.
SetKey(fields, k, v) ==
  IF \E i \in 1..Len(fields) : fields[i][1] = k
  THEN [i \in 1..Len(fields) |-> IF fields[i][1] = k THEN <<k, v>> ELSE fields[i]]
  ELSE Append(fields, <<k, v>>)

\* Python truthiness of a JSON value.
Truthy(v) ==
  CASE v.t = "bool" -> v.b
    [] v.t = "str" -> v.s # ""
    [] v.t = "num" -> v.lit \notin {"0", "0.0"}
    [] v.t = "arr" -> v.items # <<>>
    [] v.t = "obj" -> v.fields # <<>>
    [] OTHER -> FALSE

\* ------------------------------------------------------------- JSON texts
Tok(k, s) == [k |-> k, s |-> s]
P(k) == Tok(k, "")

RECURSIVE JsonDumps(_)
RECURSIVE DumpItems(_)
RECURSIVE DumpMembers(_)

DumpItems(items) ==
  IF items = <<>> THEN <<>>
  ELSE IF Len(items) = 1 THEN JsonDumps(items[1])
  ELSE JsonDumps(items[1]) \o <<P(",")>> \o DumpItems(Tail(items))

DumpMembers(fields) ==
  IF fields = <<>> THEN <<>>
  ELSE LET m == <<Tok("str", fields[1][1]), P(":")>> \o JsonDumps(fields[1][2])
       IN IF Len(fields) = 1 THEN m ELSE m \o <<P(",")>> \o DumpMembers(Tail(fields))

\* json.dumps: the text of a value.
JsonDumps(v) ==
  CASE v.t = "str" -> <<Tok("str", v.s)>>
    [] v.t = "bool" -> IF v.b THEN <<P("true")>> ELSE <<P("false")>>
    [] v.t = "num" -> <<Tok("num", v.lit)>>
    [] v.t = "arr" -> <<P("[")>> \o DumpItems(v.items) \o <<P("]")>>
    [] v.t = "obj" -> <<P("{")>> \o DumpMembers(v.fields) \o <<P("}")>>
    [] OTHER -> <<P("null")>>

ParseFail == [ok |-> FALSE, v |-> JNull, next |-> 0]
ParseOk(v, next) == [ok |-> TRUE, v |-> v, next |-> next]

RECURSIVE ParseValue(_, _)
RECURSIVE ParseItems(_, _, _)
RECURSIVE ParseMembers(_, _, _)

\* The elements of an array, from position i (after "[" or after ",").
ParseItems(toks, i, acc) ==
  IF i > Len(toks) THEN ParseFail
  ELSE IF acc = <<>> /\ toks[i].k = "]" THEN ParseOk(JArr(<<>>), i + 1)
  ELSE LET r == ParseValue(toks, i)
       IN IF ~r.ok \/ r.next > Len(toks) THEN ParseFail
          ELSE IF toks[r.next].k = "," THEN ParseItems(toks, r.next + 1, Append(acc, r.v))
          ELSE IF toks[r.next].k = "]" THEN ParseOk(JArr(Append(acc, r.v)), r.next + 1)
          ELSE ParseFail

\* The members of an object, from position i (after "{" or after ",").
ParseMembers(toks, i, acc) ==
  IF i > Len(toks) THEN ParseFail
  ELSE IF acc = <<>> /\ toks[i].k = "}" THEN ParseOk(JObj(<<>>), i + 1)
  ELSE IF toks[i].k # "str" \/ i + 1 > Len(toks) THEN ParseFail
  ELSE IF toks[i + 1].k # ":" THEN ParseFail
  ELSE LET r == ParseValue(toks, i + 2)
       IN IF ~r.ok \/ r.next > Len(toks) THEN ParseFail
          ELSE LET fields == SetKey(acc, toks[i].s, r.v)
               IN IF toks[r.next].k = "," THEN ParseMembers(toks, r.next + 1, fields)
                  ELSE IF toks[r.next].k = "}" THEN ParseOk(JObj(fields), r.next + 1)
                  ELSE ParseFail

ParseValue(toks, i) ==
  IF i > Len(toks) THEN ParseFail
  ELSE CASE toks[i].k = "str" -> ParseOk(JStr(toks[i].s), i + 1)
         [] toks[i].k = "num" -> ParseOk(JNum(toks[i].s), i + 1)
         [] toks[i].k = "true" -> ParseOk(JBool(TRUE), i + 1)
         [] toks[i].k = "false" -> ParseOk(JBool(FALSE), i + 1)
         [] toks[i].k = "null" -> ParseOk(JNull, i + 1)
         [] toks[i].k = "[" -> ParseItems(toks, i + 1, <<>>)
         [] toks[i].k = "{" -> ParseMembers(toks, i + 1, <<>>)
         [] OTHER -> ParseFail

\* json.loads: ok is FALSE where json.loads raises.
JsonLoads(toks) ==
  LET r == ParseValue(toks, 1)
  IN IF r.ok /\ r.next = Len(toks) + 1 THEN [ok |-> TRUE, v |-> r.v]
     ELSE [ok |-> FALSE, v |-> JNull]

\* ---------------------------------------------------------------- inputs
\* The first two of available_models; index 0 is the selectbox's initial value.
AvailableModels == <<"llama2", "mistral">>
DefaultModel == AvailableModels[1]

\* What the user types into the chat input.
Prompts == {"hi"}

\* The slider values of a run: the defaults with one slider moved.
DefaultParams ==
  <<<<"temperature", JNum("0.7")>>, <<"top_k", JNum("40")>>, <<"top_p", JNum("0.9")>>,
    <<"repeat_penalty", JNum("1.1")>>, <<"num_ctx", JNum("2048")>>>>
ParamChoices == {SetKey(DefaultParams, "num_ctx", JNum("512"))}

UserDict(content) == JObj(<<<<"role", JStr("user")>>, <<"content", JStr(content)>>>>)
AssistantDict(content) == JObj(<<<<"role", JStr("assistant")>>, <<"content", JStr(content)>>>>)

\* One streamed event of the inference server, as the line it is sent in.
EventLine(content, done) ==
  JsonDumps(JObj(<<<<"message", JObj(<<<<"role", JStr("assistant")>>, <<"content", JStr(content)>>>>)>>,
                   <<"done", JBool(done)>>>>))

\* The bodies of the 2xx responses of the inference server, each the lines
\* it is read in: two content events, a done event (that carries content)
\* and an event after it; a keep-alive blank line, two content events and
\* no done event; a line that is no JSON after a content event; a JSON line
\* that is no object.
BlankLine == <<>>
Responses ==
  { <<EventLine("Hel", FALSE), EventLine("lo", FALSE), EventLine("tail", TRUE),
      EventLine("lo", FALSE)>>,
    <<BlankLine, EventLine("lo", FALSE), EventLine("Hel", FALSE)>>,
    <<EventLine("Hel", FALSE), <<Tok("bad", "<html>")>>, EventLine("lo", FALSE)>>,
    <<JsonDumps(JStr("busy"))>> }

\* The files a user uploads (besides a downloaded export).
OldTranscript == JArr(<<UserDict("old"), AssistantDict("reply")>>)
Docs ==
  { <<Tok("bad", "not json")>>,
    JsonDumps(JObj(<<<<"metadata", JObj(<<<<"model", JStr("mistral")>>>>)>>>>)),
    JsonDumps(JObj(<<<<"messages", OldTranscript>>>>)),
    JsonDumps(JObj(<<<<"messages", OldTranscript>>, <<"metadata", JObj(<<>>)>>>>)),
    JsonDumps(JObj(<<<<"metadata", JObj(<<<<"model", JStr("mistral")>>>>)>>,
                     <<"messages", OldTranscript>>>>)) }

\* A text that is rendered, as its lines: a line of characters, or a line
\* of a fence marker (three backquotes or tildes) followed by lang.
Line(chars) == [k |-> "line", s |-> chars]
Fence(lang) == [k |-> "fence", lang |-> lang]

\* The lines the replies are made of.
Tokens == {Line(<<"x", "<", "y">>), Fence(""), Fence("python"), Fence("nolang")}

\* What the installed libraries do: the prefix Markdown puts before a fence's
\* language in the class attribute ("language-" since Markdown 3.3, none
\* before), the lexer names Pygments knows, and those whose highlighting raises.
LexerNames == {"python"}
Envs == [lang_prefix : {"", "language-"}, raising : SUBSET LexerNames]
DefaultEnv == [lang_prefix |-> "language-", raising |-> {}]

\* ------------------------------------------------------------- the program
\* Message: role, content, and the instant of its construction.
Message(role, content, now) == [role |-> role, content |-> content, timestamp |-> now]

\* datetime.isoformat.
IsoFormat(t) == "2024-01-01T00:00:0" \o ToString(t)

\* Message.to_dict.
to_dict(msg) ==
  JObj(<<<<"role", JStr(msg.role)>>, <<"content", JStr(msg.content)>>,
         <<"timestamp", JStr(IsoFormat(msg.timestamp))>>>>)

RECURSIVE Merge(_, _)
\* {**d, **params}
Merge(fields, params) ==
  IF params = <<>> THEN fields
  ELSE Merge(SetKey(fields, params[1][1], params[1][2]), Tail(params))

\* The json= body of the POST to {api_base}/chat.
RequestBody(model, messages, params) ==
  JObj(Merge(<<<<"model", JStr(model)>>,
               <<"messages", JArr([i \in 1..Len(messages) |-> to_dict(messages[i])])>>,
               <<"stream", JBool(TRUE)>>>>, params))

\* What the body of the streaming loop does with one line: skips a blank
\* line, breaks on a done event, yields an event's content, or raises
\* (json.loads on a line that is no JSON; .get on a value that is no dict;
\* str += a content that is no str).
Event(line) ==
  IF line = <<>> THEN [kind |-> "blank", content |-> ""]
  ELSE LET parsed == JsonLoads(line)
           json_response == parsed.v
       IN IF ~parsed.ok \/ json_response.t # "obj" THEN [kind |-> "raise", content |-> ""]
          ELSE IF HasKey(json_response, "done") /\ Truthy(Get(json_response, "done"))
               THEN [kind |-> "done", content |-> ""]
          ELSE IF ~HasKey(json_response, "message") THEN [kind |-> "content", content |-> ""]
          ELSE LET message == Get(json_response, "message")
               IN IF message.t # "obj" THEN [kind |-> "raise", content |-> ""]
                  ELSE IF ~HasKey(message, "content") THEN [kind |-> "content", content |-> ""]
                  ELSE IF Get(message, "content").t # "str" THEN [kind |-> "raise", content |-> ""]
                  ELSE [kind |-> "content", content |-> Get(message, "content").s]

\* export_conversation: "" for an empty transcript, else the JSON text.
export_conversation(messages, model, now) ==
  IF ~Truthy(messages) THEN <<>>
  ELSE JsonDumps(JObj(<<<<"metadata", JObj(<<<<"model", JStr(model)>>,
                                             <<"export_time", JStr(IsoFormat(now))>>>>)>>,
                        <<"messages", messages>>>>))

\* import_conversation: the assignments run in order until one raises; the
\* bare except turns any exception into False.
import_conversation(json_str, messages, model) ==
  LET parsed == JsonLoads(json_str)
      data == parsed.v
  IN IF ~parsed.ok \/ data.t # "obj" THEN [ret |-> FALSE, messages |-> messages, model |-> model]
     ELSE IF ~HasKey(data, "messages") THEN [ret |-> FALSE, messages |-> messages, model |-> model]
     ELSE LET imported == Get(data, "messages")
          IN IF ~HasKey(data, "metadata")
             THEN [ret |-> FALSE, messages |-> imported, model |-> model]
             ELSE LET metadata == Get(data, "metadata")
                  IN IF metadata.t # "obj" \/ ~HasKey(metadata, "model")
                     THEN [ret |-> FALSE, messages |-> imported, model |-> model]
                     ELSE [ret |-> TRUE, messages |-> imported,
                           model |-> Get(metadata, "model").s]

\* f"Error: {str(e)}"
ErrorFragment(e) == "Error: " \o e

\* --------------------------------------------------------------- the state
VARIABLES
  session_messages,  \* st.session_state.messages
  chatbot_model,     \* st.session_state.chatbot.model
  chatbot_messages,  \* st.session_state.chatbot.messages
  clock,             \* datetime.now(): the number of Messages made so far
  selected_model,    \* the selectbox
  uploaded_file,     \* the file uploader: <<>> or <<text>>
  prompt_input,      \* this run's chat input: <<>> or <<[prompt, params]>>
  pc,                \* where main is
  download,          \* the text behind this run's download link: <<>> or <<text>>
  gpc,               \* where the generator of this run's turn is
  full_response,     \* the generator's buffer
  ui_response,       \* main's full_response
  request,           \* the body POSTed in this turn: <<>> or <<body>>
  status,            \* how the POST of this turn ended: "", "ok" or the exception
  response,          \* the lines of the response that are still to be read
  events,            \* the lines read from the response in this turn
  yielded,           \* the fragments yielded in this turn
  pre_messages,      \* chatbot.messages when the generator started: <<>> or <<messages>>
  import_ret,        \* what import_conversation returned in this run: <<>> or <<bool>>
  pre_import,        \* the state import_conversation was called in
  exported_from,     \* the state the export in the uploader was made from
  last_import,       \* the messages of a successful import no reset has dropped since
  turns,             \* the prompts submitted so far
  md_env,            \* the installed Markdown and Pygments
  md_text,           \* the reply that is rendered: main's full_response, as lines
  md_phase,          \* "stream" (line 210-212), "final" (line 214), "shown" (line 188)
  md_calls           \* the calls of format_markdown so far: text and result

widgets == <<selected_model, uploaded_file>>
session == <<session_messages, chatbot_model, chatbot_messages>>
turn == <<gpc, full_response, ui_response, request, status, response, events, yielded,
          pre_messages>>
imports == <<import_ret, pre_import>>
render == <<md_env, md_text, md_phase, md_calls>>
app == <<session, clock, widgets, prompt_input, pc, download, turn, imports, exported_from,
         last_import, turns>>
vars == <<app, render>>

\* initialize_session_state, and a first run of main that found nothing to do,
\* with the libraries env installed.
Start(env) ==
  /\ session_messages = JArr(<<>>)
  /\ chatbot_model = DefaultModel
  /\ chatbot_messages = <<>>
  /\ clock = 0
  /\ selected_model = DefaultModel
  /\ uploaded_file = <<>>
  /\ prompt_input = <<>>
  /\ pc = "idle"
  /\ download = <<>>
  /\ gpc = "none"
  /\ full_response = ""
  /\ ui_response = ""
  /\ request = <<>>
  /\ status = ""
  /\ response = <<>>
  /\ events = <<>>
  /\ yielded = <<>>
  /\ pre_messages = <<>>
  /\ import_ret = <<>>
  /\ pre_import = <<>>
  /\ exported_from = <<>>
  /\ last_import = <<>>
  /\ turns = 0
  /\ md_env = env
  /\ md_text = <<>>
  /\ md_phase = "stream"
  /\ md_calls = <<>>

Init == Start(DefaultEnv)

\* A run starts without a generator, and a run that ends leaves none.
NoTurn ==
  /\ gpc' = "none"
  /\ full_response' = ""
  /\ ui_response' = ""
  /\ request' = <<>>
  /\ status' = ""
  /\ response' = <<>>
  /\ events' = <<>>
  /\ yielded' = <<>>
  /\ pre_messages' = <<>>

\* ------------------------------------------------------- the user's events
\* Streamlit runs main from the top on every widget event, and again after
\* st.rerun().  A button and the chat input hold a value for the one run their
\* event starts; the selectbox and the file uploader keep theirs.  A run goes
\* to its first statement that does something: the clicked button's branch,
\* else the uploader's branch when a file is there, else the model check when
\* the model differs or a prompt came, else its end.
\* The user takes a file out of the uploader before any other event, and
\* uploads an export as the event after the run that made it, or not at all.
BeginRun(first, prompt) ==
  /\ pc \in {"idle", "rerun"}
  /\ pc' = IF first # "upload" \/ uploaded_file' # <<>> THEN first
           ELSE IF prompt # <<>> \/ chatbot_model # selected_model' THEN "model"
           ELSE "idle"
  /\ prompt_input' = prompt
  /\ turns' = turns + Len(prompt)
  /\ download' = <<>>
  /\ exported_from' = IF exported_from # <<>> /\ uploaded_file' = <<exported_from[1].text>>
                      THEN exported_from ELSE <<>>
  /\ NoTurn
  /\ import_ret' = <<>>
  /\ pre_import' = <<>>
  /\ UNCHANGED <<session, clock, last_import, render>>

\* st.rerun(): the next run, with the widgets as they are.
Rerun ==
  /\ pc = "rerun"
  /\ UNCHANGED widgets
  /\ BeginRun("upload", <<>>)

SelectModel(m) ==
  /\ uploaded_file = <<>>
  /\ m # selected_model
  /\ selected_model' = m
  /\ UNCHANGED uploaded_file
  /\ BeginRun("upload", <<>>)

ClickClear ==
  /\ uploaded_file = <<>>
  /\ UNCHANGED widgets
  /\ BeginRun("clear", <<>>)

ClickExport ==
  /\ uploaded_file = <<>>
  /\ UNCHANGED widgets
  /\ BeginRun("export", <<>>)

UploadFile(text) ==
  /\ uploaded_file = <<>>
  /\ uploaded_file' = <<text>>
  /\ UNCHANGED selected_model
  /\ BeginRun("upload", <<>>)

RemoveFile ==
  /\ uploaded_file # <<>>
  /\ uploaded_file' = <<>>
  /\ UNCHANGED selected_model
  /\ BeginRun("upload", <<>>)

SubmitPrompt(prompt, params) ==
  /\ uploaded_file = <<>>
  /\ turns < MaxTurns
  /\ UNCHANGED widgets
  /\ BeginRun("upload", <<[prompt |-> prompt, params |-> params]>>)

\* ------------------------------------------------------------- main's steps
\* ClearButton with the client kept: its model is set, its transcript stays.
ClearButtonKeepsClient ==
  /\ pc = "clear"
  /\ session_messages' = JArr(<<>>)
  /\ chatbot_model' = selected_model
  /\ last_import' = <<>>
  /\ pc' = "rerun"
  /\ UNCHANGED <<chatbot_messages, clock, widgets, prompt_input, download, turn, imports,
                 exported_from, turns, render>>

\* if st.button("Clear History"): ...; st.rerun()
ClearButton ==
  /\ pc = "clear"
  /\ session_messages' = JArr(<<>>)
  /\ chatbot_model' = selected_model
  /\ chatbot_messages' = <<>>
  /\ last_import' = <<>>
  /\ pc' = "rerun"
  /\ UNCHANGED <<clock, widgets, prompt_input, download, turn, imports, exported_from, turns,
                 render>>

\* if st.button("Export Chat"): export_conversation(); get_download_link(...)
ExportButton ==
  /\ pc = "export"
  /\ LET text == export_conversation(session_messages, chatbot_model, clock)
     IN /\ download' = <<text>>
        /\ exported_from' = <<[messages |-> session_messages, model |-> chatbot_model,
                               text |-> text]>>
  /\ pc' = IF uploaded_file # <<>> THEN "upload"
           ELSE IF chatbot_model # selected_model THEN "model"
           ELSE "idle"
  /\ UNCHANGED <<session, clock, widgets, prompt_input, turn, imports, last_import, turns,
                 render>>

\* if uploaded_file: if import_conversation(content): st.rerun()
FileUploader ==
  /\ pc = "upload"
  /\ LET r == import_conversation(uploaded_file[1], session_messages, chatbot_model)
     IN /\ session_messages' = r.messages
        /\ chatbot_model' = r.model
        /\ import_ret' = <<r.ret>>
        /\ pre_import' = <<[messages |-> session_messages, model |-> chatbot_model]>>
        /\ last_import' = IF r.ret THEN <<r.messages>>
                          ELSE IF r.messages = session_messages THEN last_import
                          ELSE <<>>
        /\ pc' = IF r.ret THEN "rerun" ELSE "model"
  /\ UNCHANGED <<chatbot_messages, clock, widgets, prompt_input, download, turn,
                 exported_from, turns, render>>

\* if st.session_state.chatbot.model != selected_model: ...
\* then if prompt := st.chat_input(...): the user dict is appended and the
\* generator is made; its body has not started.
ModelCheck ==
  /\ pc = "model"
  /\ LET changed == chatbot_model # selected_model
         shown == IF changed THEN JArr(<<>>) ELSE session_messages
     IN /\ chatbot_model' = selected_model
        /\ chatbot_messages' = IF changed THEN <<>> ELSE chatbot_messages
        /\ last_import' = IF changed THEN <<>> ELSE last_import
        /\ IF prompt_input = <<>>
           THEN /\ session_messages' = shown
                /\ pc' = "idle"
                /\ gpc' = gpc
           ELSE /\ session_messages' = JArr(Append(shown.items, UserDict(prompt_input[1].prompt)))
                /\ pc' = "turn"
                /\ gpc' = "created"
  /\ import_ret' = <<>>
  /\ pre_import' = <<>>
  /\ UNCHANGED <<clock, widgets, prompt_input, download, full_response, ui_response, request,
                 status, response, events, yielded, pre_messages, exported_from, turns,
                 render>>

\* ------------------------------------------- generate_streaming_response
\* What no step of the generator changes.
frame == <<session_messages, chatbot_model, widgets, prompt_input, pc, download, imports,
           exported_from, last_import, turns, render>>

\* self.messages.append(Message("user", prompt))
AppendUser(messages, prompt, now) == Append(messages, Message("user", prompt, now))

\* self.messages.append(Message("assistant", full_response))
AppendAssistant(messages, buffer, now) == Append(messages, Message("assistant", buffer, now))

\* GenStart with the conversation taken before the user message is appended.
GenStartPostsFirst ==
  /\ pc = "turn"
  /\ gpc = "created"
  /\ pre_messages' = <<chatbot_messages>>
  /\ request' = <<RequestBody(chatbot_model, chatbot_messages, prompt_input[1].params)>>
  /\ chatbot_messages' = AppendUser(chatbot_messages, prompt_input[1].prompt, clock)
  /\ clock' = clock + 1
  /\ gpc' = "posting"
  /\ UNCHANGED <<frame, full_response, ui_response, status, response, events, yielded>>

\* GenStart with the history cut to the message of this turn.
GenStartTrims ==
  /\ pc = "turn"
  /\ gpc = "created"
  /\ pre_messages' = <<chatbot_messages>>
  /\ chatbot_messages' = AppendUser(<<>>, prompt_input[1].prompt, clock)
  /\ clock' = clock + 1
  /\ request' = <<RequestBody(chatbot_model, chatbot_messages', prompt_input[1].params)>>
  /\ gpc' = "posting"
  /\ UNCHANGED <<frame, full_response, ui_response, status, response, events, yielded>>

\* main's first pull: the body runs up to requests.post.
GenStart ==
  /\ pc = "turn"
  /\ gpc = "created"
  /\ pre_messages' = <<chatbot_messages>>
  /\ chatbot_messages' = AppendUser(chatbot_messages, prompt_input[1].prompt, clock)
  /\ clock' = clock + 1
  /\ request' = <<RequestBody(chatbot_model, chatbot_messages', prompt_input[1].params)>>
  /\ gpc' = "posting"
  /\ UNCHANGED <<frame, full_response, ui_response, status, response, events, yielded>>

\* except RequestException as e: yield f"Error: {str(e)}"; main adds the
\* fragment to its own full_response.
YieldError(e) ==
  /\ yielded' = Append(yielded, ErrorFragment(e))
  /\ ui_response' = ui_response \o ErrorFragment(e)
  /\ gpc' = "yield_error"

\* requests.post raises (no connection), or raise_for_status does (a status
\* that is an error).
PostFails(e) ==
  /\ pc = "turn"
  /\ gpc = "posting"
  /\ status' = e
  /\ YieldError(e)
  /\ UNCHANGED <<frame, chatbot_messages, clock, full_response, request, response, events,
                 pre_messages>>

\* A 2xx response: full_response = "", and the loop waits for a line.
PostOk(body) ==
  /\ pc = "turn"
  /\ gpc = "posting"
  /\ status' = "ok"
  /\ response' = body
  /\ full_response' = ""
  /\ gpc' = "reading"
  /\ UNCHANGED <<frame, chatbot_messages, clock, ui_response, request, events, yielded,
                 pre_messages>>

\* The loop takes the next line of the response.
Reads(kind) ==
  /\ pc = "turn"
  /\ gpc = "reading"
  /\ response # <<>>
  /\ Event(Head(response)).kind = kind
  /\ events' = Append(events, Head(response))
  /\ response' = Tail(response)

\* ReadBlank without the test of the line: a fragment is yielded for it.
ReadBlankYields ==
  /\ Reads("blank")
  /\ yielded' = Append(yielded, "")
  /\ gpc' = "yielded"
  /\ UNCHANGED <<frame, chatbot_messages, clock, full_response, ui_response, request, status,
                 pre_messages>>

\* if line: is false.
ReadBlank ==
  /\ Reads("blank")
  /\ UNCHANGED <<frame, chatbot_messages, clock, gpc, full_response, ui_response, request,
                 status, yielded, pre_messages>>

\* ReadContent with the fragment put in front of the buffer.
ReadContentPrepends ==
  /\ Reads("content")
  /\ full_response' = Event(Head(response)).content \o full_response
  /\ yielded' = Append(yielded, Event(Head(response)).content)
  /\ ui_response' = ui_response \o Event(Head(response)).content
  /\ gpc' = "yielded"
  /\ UNCHANGED <<frame, chatbot_messages, clock, request, status, pre_messages>>

\* ReadContent with the assistant Message recorded at every fragment.
ReadContentAppends ==
  /\ Reads("content")
  /\ full_response' = full_response \o Event(Head(response)).content
  /\ yielded' = Append(yielded, Event(Head(response)).content)
  /\ ui_response' = ui_response \o Event(Head(response)).content
  /\ chatbot_messages' = AppendAssistant(chatbot_messages, full_response', clock)
  /\ clock' = clock + 1
  /\ gpc' = "yielded"
  /\ UNCHANGED <<frame, request, status, pre_messages>>

\* full_response += content; yield content; main adds the fragment to its
\* own full_response.
ReadContent ==
  /\ Reads("content")
  /\ full_response' = full_response \o Event(Head(response)).content
  /\ yielded' = Append(yielded, Event(Head(response)).content)
  /\ ui_response' = ui_response \o Event(Head(response)).content
  /\ gpc' = "yielded"
  /\ UNCHANGED <<frame, chatbot_messages, clock, request, status, pre_messages>>

\* ReadDone with the done event's content handled before the break.
ReadDoneYields ==
  /\ Reads("done")
  /\ LET event == JsonLoads(Head(response)).v
         content == IF HasKey(event, "message") THEN Get(Get(event, "message"), "content").s
                    ELSE ""
     IN /\ full_response' = full_response \o content
        /\ yielded' = Append(yielded, content)
        /\ ui_response' = ui_response \o content
        /\ chatbot_messages' = AppendAssistant(chatbot_messages, full_response', clock)
  /\ clock' = clock + 1
  /\ gpc' = "returned"
  /\ UNCHANGED <<frame, request, status, pre_messages>>

\* break, then the append after the loop, then the generator returns.
ReadDone ==
  /\ Reads("done")
  /\ chatbot_messages' = AppendAssistant(chatbot_messages, full_response, clock)
  /\ clock' = clock + 1
  /\ gpc' = "returned"
  /\ UNCHANGED <<frame, full_response, ui_response, request, status, yielded, pre_messages>>

\* An exception that is no RequestException leaves the generator.
ReadRaises ==
  /\ Reads("raise")
  /\ gpc' = "raised"
  /\ UNCHANGED <<frame, chatbot_messages, clock, full_response, ui_response, request, status,
                 yielded, pre_messages>>

\* iter_lines is exhausted: the loop ends, then the append after the loop.
StreamEnd ==
  /\ pc = "turn"
  /\ gpc = "reading"
  /\ response = <<>>
  /\ chatbot_messages' = AppendAssistant(chatbot_messages, full_response, clock)
  /\ clock' = clock + 1
  /\ gpc' = "returned"
  /\ UNCHANGED <<frame, full_response, ui_response, request, status, response, events,
                 yielded, pre_messages>>

\* iter_lines raises (the connection breaks while the body is read).
TransportFails ==
  /\ pc = "turn"
  /\ gpc = "reading"
  /\ YieldError("ChunkedEncodingError")
  /\ UNCHANGED <<frame, chatbot_messages, clock, full_response, request, status, response,
                 events, pre_messages>>

\* main pulls again after a content fragment.
Resume ==
  /\ pc = "turn"
  /\ gpc = "yielded"
  /\ gpc' = "reading"
  /\ UNCHANGED <<frame, chatbot_messages, clock, full_response, ui_response, request, status,
                 response, events, yielded, pre_messages>>

\* ResumeAfterError with the append placed after the try statement.
ResumeAfterErrorAppends ==
  /\ pc = "turn"
  /\ gpc = "yield_error"
  /\ chatbot_messages' = AppendAssistant(chatbot_messages, full_response, clock)
  /\ clock' = clock + 1
  /\ gpc' = "returned"
  /\ UNCHANGED <<frame, full_response, ui_response, request, status, response, events,
                 yielded, pre_messages>>

\* ResumeAfterError with the try statement inside the loop: the loop goes on.
ResumeAfterErrorContinues ==
  /\ pc = "turn"
  /\ gpc = "yield_error"
  /\ gpc' = "reading"
  /\ UNCHANGED <<frame, chatbot_messages, clock, full_response, ui_response, request, status,
                 response, events, yielded, pre_messages>>

\* main pulls again after the error fragment: the except block ends, and the
\* generator with it.
ResumeAfterError ==
  /\ pc = "turn"
  /\ gpc = "yield_error"
  /\ gpc' = "returned"
  /\ UNCHANGED <<frame, chatbot_messages, clock, full_response, ui_response, request, status,
                 response, events, yielded, pre_messages>>

\* Abandon with the append in a finally clause, which closing runs.
AbandonAppends ==
  /\ pc = "turn"
  /\ gpc \in {"yielded", "yield_error"}
  /\ chatbot_messages' = AppendAssistant(chatbot_messages, full_response, clock)
  /\ clock' = clock + 1
  /\ gpc' = "closed"
  /\ pc' = "idle"
  /\ last_import' = <<>>
  /\ UNCHANGED <<session_messages, chatbot_model, widgets, prompt_input, download,
                 full_response, ui_response, request, status, response, events, yielded,
                 pre_messages, imports, exported_from, turns, render>>

\* The run is stopped while the generator is suspended at a yield (the user
\* acts or leaves): nothing pulls again, and closing the generator runs none
\* of its remaining statements.
Abandon ==
  /\ pc = "turn"
  /\ gpc \in {"yielded", "yield_error"}
  /\ gpc' = "closed"
  /\ pc' = "idle"
  /\ last_import' = <<>>
  /\ UNCHANGED <<session, clock, widgets, prompt_input, download, full_response, ui_response,
                 request, status, response, events, yielded, pre_messages, imports,
                 exported_from, turns, render>>

\* The run of main ends, and its generator with it.
EndTurn ==
  /\ pc = "turn"
  /\ pc' = "idle"
  /\ NoTurn
  /\ last_import' = <<>>
  /\ UNCHANGED <<chatbot_model, chatbot_messages, clock, widgets, prompt_input, download,
                 imports, exported_from, turns, render>>

\* The loop of main is over: the assistant dict is appended.
TurnEnd ==
  /\ gpc = "returned"
  /\ session_messages' = JArr(Append(session_messages.items, AssistantDict(ui_response)))
  /\ EndTurn

\* The generator's exception ends the run of main.
TurnCrash ==
  /\ gpc = "raised"
  /\ UNCHANGED session_messages
  /\ EndTurn

\* ------------------------------------------------------- format_markdown
\* The block character main puts after the text while the reply streams.
Cursor == "_"

\* full_response + cursor: the cursor ends the last line.
AddCursor(text) ==
  IF text = <<>> THEN <<Line(<<Cursor>>)>>
  ELSE LET last == text[Len(text)]
       IN [text EXCEPT ![Len(text)] = IF last.k = "line" THEN Line(Append(last.s, Cursor))
                                      ELSE Fence(last.lang \o Cursor)]

\* The characters of a line of the text; the fence marker is kept whole.
SourceLine(tok) == IF tok.k = "line" THEN tok.s ELSE <<"~~~" \o tok.lang>>

\* Markdown's HTML escaping of text and code.
EscapeChar(c) ==
  CASE c = "<" -> "&lt;"
    [] c = ">" -> "&gt;"
    [] c = "&" -> "&amp;"
    [] OTHER -> c
Escape(chars) == [i \in 1..Len(chars) |-> EscapeChar(chars[i])]

\* The first line after line i that is a closing fence, or 0.
ClosingFence(text, i) ==
  LET closers == {j \in (i + 1)..Len(text) : text[j] = Fence("")}
  IN IF closers = {} THEN 0 ELSE CHOOSE j \in closers : \A k \in closers : j <= k

RECURSIVE Markdown(_, _)
\* markdown.markdown(text, extensions=['fenced_code', 'tables']), from line i:
\* a fence with its closing fence is a code block, with a class attribute when
\* the fence names a language; any other line is a paragraph.
Markdown(text, i) ==
  IF i > Len(text) THEN <<>>
  ELSE IF text[i].k = "fence" /\ ClosingFence(text, i) # 0
       THEN LET j == ClosingFence(text, i)
                code == [n \in 1..(j - i - 1) |-> Escape(SourceLine(text[i + n]))]
                class == IF text[i].lang = "" THEN <<>>
                         ELSE <<md_env.lang_prefix \o text[i].lang>>
            IN <<[tag |-> "pre", class |-> class, code |-> code]>> \o Markdown(text, j + 1)
       ELSE <<[tag |-> "p", s |-> Escape(SourceLine(text[i]))]>> \o Markdown(text, i + 1)

\* get_lexer_by_name: ok is FALSE where it raises ClassNotFound.
get_lexer_by_name(lang) == [ok |-> lang \in LexerNames, lexer |-> lang]

\* pygments.highlight with HtmlFormatter(style='monokai'): the formatter
\* escapes the code it is given; ok is FALSE where highlighting raises.
highlight(code, lexer) ==
  [ok |-> lexer \notin md_env.raising,
   html |-> [lexer |-> lexer, style |-> "monokai",
             code |-> [n \in 1..Len(code) |-> Escape(code[n])]]]

\* highlight_code without the try statement: an exception leaves it.
highlight_code_no_try(match) ==
  LET found == get_lexer_by_name(match.class[1])
      highlighted == highlight(match.code, found.lexer)
  IN IF found.ok /\ highlighted.ok
     THEN [raised |-> FALSE,
           node |-> [tag |-> "div", class |-> "highlight", html |-> highlighted.html]]
     ELSE [raised |-> TRUE, node |-> match]

\* highlight_code: the highlighted block, or match.group(0) when anything
\* in the try statement raises.
highlight_code(match) ==
  LET found == get_lexer_by_name(match.class[1])
      highlighted == highlight(match.code, found.lexer)
  IN IF found.ok /\ highlighted.ok
     THEN [raised |-> FALSE,
           node |-> [tag |-> "div", class |-> "highlight", html |-> highlighted.html]]
     ELSE [raised |-> FALSE, node |-> match]

\* code_block_pattern: a code block with a class attribute and no "<" in
\* its code.
Matches(node) ==
  /\ node.tag = "pre"
  /\ node.class # <<>>
  /\ \A n \in 1..Len(node.code) : \A c \in 1..Len(node.code[n]) : node.code[n][c] # "<"

\* re.sub(code_block_pattern, highlight_code, formatted): every match is
\* replaced by what highlight_code returns; an exception of highlight_code
\* leaves re.sub.
re_sub(formatted) ==
  LET subs == [n \in 1..Len(formatted) |->
                 IF Matches(formatted[n]) THEN highlight_code(formatted[n])
                 ELSE [raised |-> FALSE, node |-> formatted[n]]]
  IN [raised |-> \E n \in 1..Len(formatted) : subs[n].raised,
      html |-> [n \in 1..Len(formatted) |-> subs[n].node]]

\* format_markdown with one converter kept between the calls and not reset:
\* its output still holds the document of the call before.
format_markdown_keeps_converter(text) ==
  LET result == re_sub(Markdown(text, 1))
  IN IF md_calls = <<>> THEN result
     ELSE [raised |-> result.raised,
           html |-> md_calls[Len(md_calls)].result.html \o result.html]

format_markdown(text) == re_sub(Markdown(text, 1))

\* One call of format_markdown by main, put on record.
Call(text) ==
  /\ md_calls' = Append(md_calls, [text |-> text, result |-> format_markdown(text)])
  /\ UNCHANGED <<app, md_env>>

\* A fragment arrives: full_response += response_chunk, and the placeholder
\* shows format_markdown(full_response + cursor).
Fragment(tok) ==
  /\ md_phase = "stream"
  /\ Len(md_text) < MaxTokens
  /\ md_text' = Append(md_text, tok)
  /\ Call(AddCursor(md_text'))
  /\ UNCHANGED md_phase

\* After the loop the placeholder shows format_markdown(full_response).
FinalRender ==
  /\ md_phase = "stream"
  /\ md_phase' = "final"
  /\ Call(md_text)
  /\ UNCHANGED md_text

\* A later run displays the message again: format_markdown(message["content"]).
Redisplay ==
  /\ md_phase = "final"
  /\ md_phase' = "shown"
  /\ Call(md_text)
  /\ UNCHANGED md_text

\* ------------------------------------------------------- the specification
\* The texts a user can upload: the files at hand, and the export on the page.
UploadableTexts == Docs \cup {download[i] : i \in 1..Len(download)}

Next ==
  \/ Rerun
  \/ \E m \in {AvailableModels[i] : i \in 1..Len(AvailableModels)} : SelectModel(m)
  \/ ClickClear
  \/ ClickExport
  \/ \E text \in UploadableTexts : UploadFile(text)
  \/ RemoveFile
  \/ \E prompt \in Prompts, params \in ParamChoices : SubmitPrompt(prompt, params)
  \/ ClearButton
  \/ ExportButton
  \/ FileUploader
  \/ ModelCheck
  \/ GenStart
  \/ \E e \in {"ConnectionError", "HTTPError"} : PostFails(e)
  \/ \E body \in Responses : PostOk(body)
  \/ ReadBlank
  \/ ReadContent
  \/ ReadDone
  \/ ReadRaises
  \/ StreamEnd
  \/ TransportFails
  \/ Resume
  \/ ResumeAfterError
  \/ Abandon
  \/ TurnEnd
  \/ TurnCrash

Spec == Init /\ [][Next]_vars

\* The caller keeps pulling: main's for loop asks the generator for its next
\* fragment whenever the generator is suspended.
PullStep == GenStart \/ Resume \/ ResumeAfterError

\* The server answers: the POST returns or raises.
PostStep ==
  \/ \E e \in {"ConnectionError", "HTTPError"} : PostFails(e)
  \/ \E body \in Responses : PostOk(body)

\* The server delivers finitely many lines: a wait of iter_lines that no line
\* ends is ended by the end of the stream or by a failure of the transport.
StreamCloses == StreamEnd \/ TransportFails

LiveSpec == Spec /\ WF_vars(PullStep) /\ WF_vars(PostStep) /\ WF_vars(StreamCloses)

\* The rendering of one reply, whatever libraries are installed.
RenderInit == \E env \in Envs : Start(env)

RenderNext ==
  \/ \E tok \in Tokens : Fragment(tok)
  \/ FinalRender
  \/ Redisplay

RenderSpec == RenderInit /\ [][RenderNext]_vars

\* ---------------------------------------------------------------- claims
\* The content fragments the responses are made of.
Fragments == {"Hel", "lo"}
IsContentEvent(line) == \E c \in Fragments : line = EventLine(c, FALSE)
FragmentOf(line) == CHOOSE c \in Fragments : line = EventLine(c, FALSE)
IsDoneEvent(line) == \E c \in Fragments \cup {"", "tail"} : line = EventLine(c, TRUE)

RECURSIVE FragmentsOf(_)
\* The fragments of the content events among lines, in order.
FragmentsOf(lines) ==
  IF lines = <<>> THEN <<>>
  ELSE IF IsContentEvent(Head(lines)) THEN <<FragmentOf(Head(lines))>> \o FragmentsOf(Tail(lines))
  ELSE FragmentsOf(Tail(lines))

RECURSIVE Concat(_)
Concat(strings) == IF strings = <<>> THEN "" ELSE Head(strings) \o Concat(Tail(strings))

Last(seq) == seq[Len(seq)]
Prompt == prompt_input[1].prompt

\* The client's transcript is its value at the call, then this turn's user
\* message, then n more messages.
GrownBy(n) ==
  /\ pre_messages # <<>>
  /\ Len(chatbot_messages) = Len(pre_messages[1]) + 1 + n
  /\ SubSeq(chatbot_messages, 1, Len(pre_messages[1])) = pre_messages[1]
  /\ chatbot_messages[Len(pre_messages[1]) + 1].role = "user"
  /\ chatbot_messages[Len(pre_messages[1]) + 1].content = Prompt

\* The (role, content) pairs of a list of dicts.
RoleContent(arr) ==
  [i \in 1..Len(arr.items) |->
     [role |-> Get(arr.items[i], "role").s, content |-> Get(arr.items[i], "content").s]]

\* A drained turn whose 2xx response was content events, then a done event.
DrainedToDone ==
  /\ status = "ok"
  /\ gpc = "returned"
  /\ events # <<>>
  /\ IsDoneEvent(Last(events))
  /\ \A i \in 1..(Len(events) - 1) : IsContentEvent(events[i]) \/ events[i] = BlankLine

\* C1: a drained turn on a 2xx response of content events and then a done
\* event has yielded exactly the events' fragments, in arrival order, and has
\* appended, after the user message, one assistant Message whose content is
\* the fragments' concatenation.
C1_YieldsThenAppends ==
  DrainedToDone =>
    /\ yielded = FragmentsOf(events)
    /\ GrownBy(1)
    /\ Last(chatbot_messages).role = "assistant"
    /\ Last(chatbot_messages).content = Concat(yielded)

C1_Witness ==
  /\ DrainedToDone
  /\ yielded = <<"Hel", "lo">>
  /\ Last(chatbot_messages).content = "Hello"
  /\ pre_messages[1] # <<>>

\* C2: when the POST fails (no connection, or a status that is an error), the
\* turn yields the one error fragment and nothing else, and the client's
\* transcript is its value at the call with the user message appended.
C2_PostFailure ==
  status \in {"ConnectionError", "HTTPError"} =>
    /\ yielded = <<"Error: " \o status>>
    /\ GrownBy(0)

C2_Witness ==
  /\ status = "HTTPError"
  /\ gpc = "returned"
  /\ yielded = <<"Error: HTTPError">>
  /\ Len(chatbot_messages) = 3

\* C3: after a streamed line that is no JSON the turn has stopped with an
\* error fragment as its last fragment (no exception leaves the generator),
\* and no assistant Message is appended.
C3_MalformedLineYieldsError ==
  (events # <<>> /\ ~JsonLoads(Last(events)).ok /\ Last(events) # BlankLine) =>
    /\ gpc \in {"yield_error", "returned", "closed"}
    /\ yielded # <<>>
    /\ Last(yielded) \notin Fragments
    /\ GrownBy(0)

\* C4: an import that returns False leaves the session's transcript and the
\* client's model as they were before the call.
C4_FailedImportChangesNothing ==
  import_ret = <<FALSE>> =>
    /\ session_messages = pre_import[1].messages
    /\ chatbot_model = pre_import[1].model

\* C5: while a turn is suspended at a yield, and after it is abandoned there,
\* the client's transcript holds no assistant Message of the turn; and an
\* abandoned turn has read no line beyond the one its last fragment came from.
C5_AppendCompleteOrAbsent ==
  /\ gpc \in {"yielded", "yield_error", "closed"} => GrownBy(0)
  /\ (gpc = "closed" /\ Last(yielded) \in Fragments) =>
       /\ IsContentEvent(Last(events))
       /\ FragmentsOf(events) = yielded

C5_Witness ==
  /\ gpc = "closed"
  /\ yielded = <<"Hel">>
  /\ response # <<>>
  /\ Len(chatbot_messages) = 3

\* C6: once the generator has started, whatever the POST and the stream did,
\* the client's transcript holds the user message with the prompt as content,
\* and the request that was sent ends with that message.
C6_UserMessageBeforeRequest ==
  gpc \notin {"none", "created"} =>
    /\ \E n \in 0..1 : GrownBy(n)
    /\ request # <<>>
    /\ LET sent == Get(request[1], "messages").items
       IN /\ Len(sent) = Len(pre_messages[1]) + 1
          /\ Get(Last(sent), "role") = JStr("user")
          /\ Get(Last(sent), "content") = JStr(Prompt)

C6_Witness ==
  /\ status = "ConnectionError"
  /\ gpc = "returned"
  /\ Last(chatbot_messages).content = Prompt
  /\ Len(Get(request[1], "messages").items) = 2

\* C7: a done event is the last line the turn reads: its content is neither
\* yielded nor put in the buffer, and the lines after it stay unread.
C7_StopsAtFirstDone ==
  \A i \in 1..Len(events) :
    IsDoneEvent(events[i]) =>
      /\ i = Len(events)
      /\ gpc = "returned"
      /\ yielded = FragmentsOf(SubSeq(events, 1, i - 1))
      /\ full_response = Concat(yielded)
      /\ Last(chatbot_messages).content = full_response

C7_Witness ==
  /\ gpc = "returned"
  /\ events # <<>>
  /\ Last(events) = EventLine("tail", TRUE)
  /\ response = <<EventLine("lo", FALSE)>>
  /\ full_response = "Hello"

\* C8: importing what export_conversation returned succeeds and leaves the
\* roles and contents of the transcript and the model that were exported.
C8_RoundTrip ==
  (import_ret # <<>> /\ exported_from # <<>> /\ uploaded_file = <<exported_from[1].text>>) =>
    /\ import_ret = <<TRUE>>
    /\ RoleContent(session_messages) = RoleContent(exported_from[1].messages)
    /\ chatbot_model = exported_from[1].model

\* C9: the request of a turn that follows a successful import carries the
\* imported messages, in order, and then the new user message.
C9_RequestCarriesImport ==
  (request # <<>> /\ last_import # <<>>) =>
    RoleContent(Get(request[1], "messages")) =
      RoleContent(last_import[1]) \o <<[role |-> "user", content |-> Prompt]>>

\* C10: the messages of the request are the client's transcript at send time,
\* in order, each entry with the role and the content and nothing else.
C10_RequestIsRoleContentTranscript ==
  request # <<>> =>
    Get(request[1], "messages") =
      JArr([i \in 1..(Len(pre_messages[1]) + 1) |->
              JObj(<<<<"role", JStr(chatbot_messages[i].role)>>,
                     <<"content", JStr(chatbot_messages[i].content)>>>>)])

\* C11: the Clear History branch, and the model check when it finds the
\* client's model differing from the selected one, leave the displayed
\* transcript and the client's transcript empty (the displayed one then takes
\* the prompt of the same run, when one came) and the client's model equal to
\* the selected model; and past the model check, at the chat input and after
\* it, the client's model is the selected model.
C11_ResetsEmptyBoth ==
  /\ [][(pc = "clear" /\ pc' # "clear") =>
          /\ session_messages' = JArr(<<>>)
          /\ chatbot_messages' = <<>>
          /\ chatbot_model' = selected_model']_vars
  /\ [][(pc = "model" /\ pc' # "model" /\ chatbot_model # selected_model) =>
          /\ session_messages' = JArr([i \in 1..Len(prompt_input) |->
                                         UserDict(prompt_input[i].prompt)])
          /\ chatbot_messages' = <<>>
          /\ chatbot_model' = selected_model']_vars
  /\ [](pc \in {"idle", "turn"} => chatbot_model = selected_model)

C11_Witness ==
  /\ pc = "rerun"
  /\ uploaded_file = <<>>
  /\ clock = 2
  /\ session_messages = JArr(<<>>)
  /\ chatbot_messages = <<>>
  /\ chatbot_model = "mistral"
  /\ selected_model = "mistral"

\* C14: an assistant Message is appended in a turn only when a done event was
\* received in it.
C14_AssistantOnlyAfterDone ==
  (pre_messages # <<>> /\ GrownBy(1)) =>
    /\ events # <<>>
    /\ IsDoneEvent(Last(events))

\* The (role, content) pairs of the client's Messages.
ClientRoleContent ==
  [i \in 1..Len(chatbot_messages) |->
     [role |-> chatbot_messages[i].role, content |-> chatbot_messages[i].content]]

\* C15: when no turn is in progress, the displayed transcript and the
\* client's transcript hold the same (role, content) pairs in the same order.
C15_DisplayedEqualsClient ==
  pc = "idle" => RoleContent(session_messages) = ClientRoleContent

\* C16: a started turn has appended its user Message and either nothing more,
\* or one assistant Message after it, with which the generator has returned;
\* a generator that has returned appends nothing.
C16_OneUserAtMostOneAssistant ==
  /\ [](gpc \notin {"none", "created"} =>
          \/ GrownBy(0)
          \/ /\ GrownBy(1)
             /\ Last(chatbot_messages).role = "assistant"
             /\ gpc = "returned")
  /\ [][gpc = "returned" => chatbot_messages' = chatbot_messages]_vars

C16_Witness ==
  /\ gpc = "returned"
  /\ GrownBy(1)
  /\ Len(pre_messages[1]) = 1
  /\ Last(chatbot_messages).role = "assistant"
  /\ yielded = <<"lo", "Hel">>

\* C17: at every point of a turn the client's transcript at the call is a
\* prefix of its transcript, every step of a turn keeps the transcript it
\* finds as a prefix, and none changes the client's model.
C17_OnlyAppends ==
  /\ [](pre_messages # <<>> =>
          /\ Len(chatbot_messages) >= Len(pre_messages[1])
          /\ SubSeq(chatbot_messages, 1, Len(pre_messages[1])) = pre_messages[1])
  /\ [][pc = "turn" =>
          /\ chatbot_model' = chatbot_model
          /\ Len(chatbot_messages') >= Len(chatbot_messages)
          /\ SubSeq(chatbot_messages', 1, Len(chatbot_messages)) = chatbot_messages]_vars

C17_Witness ==
  /\ gpc = "yield_error"
  /\ yielded = <<"Hel", "lo", "Error: ChunkedEncodingError">>
  /\ Len(pre_messages[1]) = 2
  /\ Len(chatbot_messages) = 3
  /\ chatbot_model = "mistral"

\* The exceptions of requests that the turns meet.
Errors == {"ConnectionError", "HTTPError", "ChunkedEncodingError"}
IsErrorFragment(f) == \E e \in Errors : f = ErrorFragment(e)

\* C18: an error fragment is the last fragment of its turn, so a turn yields
\* at most one, and a turn that has yielded one has appended no assistant
\* Message, also when content fragments came before it.
C18_OneErrorFragmentLast ==
  \A i \in 1..Len(yielded) :
    IsErrorFragment(yielded[i]) =>
      /\ i = Len(yielded)
      /\ gpc \in {"yield_error", "returned", "closed"}
      /\ GrownBy(0)

C18_Witness ==
  /\ gpc = "returned"
  /\ yielded = <<"Hel", "Error: ChunkedEncodingError">>
  /\ full_response = "Hel"
  /\ Last(chatbot_messages).role = "user"

\* The lines of the turn that are not empty and come before the first done
\* event.
NonEmptyBeforeDone ==
  Cardinality({i \in 1..Len(events) :
                 /\ events[i] # BlankLine
                 /\ \A j \in 1..i : ~IsDoneEvent(events[j])})

IsContentFragment(f) == ~IsErrorFragment(f)

\* C19: the fragments of a turn that are no error fragment are at most as many
\* as the non-empty lines received before the first done event, and all its
\* fragments at most one more; and a turn whose generator was made comes, with
\* the caller pulling and the server delivering, to the generator's end (its
\* return or its exception), unless the run is stopped at a yield.
C19_FiniteFragments ==
  /\ [](/\ Len(SelectSeq(yielded, IsContentFragment)) <= NonEmptyBeforeDone
        /\ Len(yielded) <= NonEmptyBeforeDone + 1)
  /\ (gpc = "created") ~> (gpc \in {"returned", "raised", "closed"})

C19_Witness ==
  /\ gpc = "returned"
  /\ response = <<>>
  /\ NonEmptyBeforeDone = 2
  /\ Len(events) = 3
  /\ Len(yielded) = 3
  /\ Len(chatbot_messages) = 3

\* A code block of the plain conversion whose language has a lexer, the
\* highlighting of which does not raise.
Highlightable(node) ==
  /\ node.tag = "pre"
  /\ node.class # <<>>
  /\ node.class[1] \in LexerNames \ md_env.raising

\* C12: no call of format_markdown raises; in its result every code block
\* whose language tag is not recognized, or whose highlighting raises, is the
\* block of the plain markdown conversion, every other block is highlighted,
\* and everything that is no code block is as the plain conversion has it.
C12_FallsBackToPlain ==
  \A c \in 1..Len(md_calls) :
    LET plain == Markdown(md_calls[c].text, 1)
        out == md_calls[c].result
    IN /\ ~out.raised
       /\ Len(out.html) = Len(plain)
       /\ \A n \in 1..Len(plain) :
            IF Highlightable(plain[n])
            THEN /\ out.html[n].tag = "div"
                 /\ out.html[n].html.lexer = plain[n].class[1]
            ELSE out.html[n] = plain[n]

C12_Witness ==
  /\ md_env.lang_prefix = ""
  /\ md_phase = "final"
  /\ md_text = <<Fence("nolang"), Fence(""), Fence("python"), Line(<<"x", "<", "y">>), Fence("")>>
  /\ md_calls[Len(md_calls)].result.html[1] = [tag |-> "pre", class |-> <<"nolang">>, code |-> <<>>]
  /\ md_calls[Len(md_calls)].result.html[2].tag = IF md_env.raising = {} THEN "div" ELSE "pre"

====
